---- MODULE Spec2Model ----
(***************************************************************************)
(* The web viewer of hack-content-navigator: the App component (index      *)
(* load, type filter, search, date grouping) and the MediaCard component   *)
(* (hover-driven frame cycling, thumbnail selection, duration overlay,     *)
(* Drive link).                                                            *)
(*                                                                         *)
(* Strings that the code inspects character by character (file names,      *)
(* paths, the search query, URLs) are sequences of one-character strings.  *)
(* JavaScript values whose kind matters (null, undefined, numbers,         *)
(* strings) are records tagged by the field t.                             *)
(***************************************************************************)
EXTENDS Integers, Sequences, FiniteSets, TLC

VARIABLES
    \* ---- App (src/unnamed/part_000)
    baseUrl,        \* import.meta.env.BASE_URL of the deployment
    server,         \* what the host answers for media_index.json
    fetchState,     \* "idle" | "pending" | "settled": the promise of line 11
    requests,       \* the HTTP requests the viewer has issued
    mediaData,      \* useState(null)
    filterType,     \* useState('all')
    searchQuery,    \* useState('')
    loading,        \* useState(true)
    \* ---- MediaCard (src/src/components/MediaCard.jsx)
    mounted,        \* the card is in the tree
    file,           \* the card's prop
    currentFrame,   \* useState(0)
    isHovering,     \* useState(false)
    intervalRef,    \* useRef(null).current: 0 is null, else an interval id
    timers,         \* the interval ids that are live in the browser
    effectPending,  \* a committed render whose passive effect has not run yet
    hasCleanup,     \* the effect has run, so its cleanup is registered
    opened,         \* the window.open calls made so far
    clicks,         \* the click events delivered to the card
    lastEvent       \* the event the card handled last

appVars  == <<baseUrl, server, fetchState, requests, mediaData, filterType,
              searchQuery, loading>>
cardVars == <<mounted, file, currentFrame, isHovering, intervalRef, timers,
              effectPending, hasCleanup, opened, clicks, lastEvent>>
vars     == <<baseUrl, server, fetchState, requests, mediaData, filterType,
              searchQuery, loading, mounted, file, currentFrame, isHovering,
              intervalRef, timers, effectPending, hasCleanup, opened, clicks,
              lastEvent>>

-----------------------------------------------------------------------------
(* Bounds of the model *)

MaxFiles == 3
MaxQueryLen == 2
MaxFrames == 3
MaxTimerId == 3
MaxClicks == 2
MaxSizeDigits == 5

-----------------------------------------------------------------------------
(* JavaScript values *)

Null      == [t |-> "null"]
Undefined == [t |-> "undefined"]
Num(n)    == [t |-> "number", n |-> n]
Str(s)    == [t |-> "string", s |-> s]
Bool(b)   == [t |-> "boolean", b |-> b]
\* A React element: its name and the text inside it.
Element(name, text) == [t |-> "element", name |-> name, text |-> text]

\* ToBoolean: false, 0, NaN, '', null and undefined are falsy.
Truthy(v) ==
    CASE v.t = "null"      -> FALSE
      [] v.t = "undefined" -> FALSE
      [] v.t = "boolean"   -> v.b
      [] v.t = "number"    -> v.n # 0
      [] v.t = "string"    -> v.s # <<>>
      [] OTHER             -> TRUE

\* a && b: a when a is falsy, else b.
JsAnd(a, b) == IF Truthy(a) THEN b ELSE a

\* What React puts in the page for a child {v}: nothing for a boolean, null,
\* undefined or the empty string, the digits of a number, the element itself.
Nothing == [kind |-> "nothing"]
Rendered(v) ==
    CASE v.t \in {"null", "undefined", "boolean"} -> Nothing
      [] v.t = "number"  -> [kind |-> "text", text |-> ToString(v.n)]
      [] v.t = "string"  -> IF v.s = <<>> THEN Nothing
                            ELSE [kind |-> "text", chars |-> v.s]
      [] OTHER           -> [kind |-> "element", name |-> v.name, text |-> v.text]

\* An ISO-8601 timestamp string, by the instant (ms since the epoch) it names.
IsoDate(ms) == [t |-> "isodate", time |-> ms]

\* The numeric result of a Date: a time value or NaN.
NaNTime     == [valid |-> FALSE, ms |-> 0]
TimeValue(ms) == [valid |-> TRUE, ms |-> ms]

MsPerDay == 24 * 60 * 60 * 1000

\* new Date(v).getTime(): null converts to the number 0, the epoch; undefined
\* and a string that is no timestamp give an Invalid Date.
NewDate(v) ==
    CASE v.t = "null"      -> TimeValue(0)
      [] v.t = "isodate"   -> TimeValue(v.time)
      [] OTHER             -> NaNTime

-----------------------------------------------------------------------------
(* Strings *)

\* The characters a search query is typed from; file names have "b" as well.
Chars == {"a", "A", "/"}

\* String.prototype.toLowerCase, one character at a time.
LowerChar(c) == IF c = "A" THEN "a" ELSE c
toLowerCase(s) == [i \in 1..Len(s) |-> LowerChar(s[i])]

\* Whether q occurs in s at 1-based position i.
OccursAt(s, q, i) ==
    /\ i + Len(q) - 1 <= Len(s)
    /\ \A j \in 1..Len(q) : s[i + j - 1] = q[j]

RECURSIVE IndexFrom(_, _, _)
\* The scan of String.prototype.includes: the first position >= i at which q
\* occurs in s, or 0 when there is none.
IndexFrom(s, q, i) ==
    IF i + Len(q) - 1 > Len(s) THEN 0
    ELSE IF OccursAt(s, q, i) THEN i
    ELSE IndexFrom(s, q, i + 1)

includes(s, q) == IndexFrom(s, q, 1) # 0

\* Whether p is a prefix of s.
StartsWith(s, p) == Len(p) <= Len(s) /\ SubSeq(s, 1, Len(p)) = p

-----------------------------------------------------------------------------
(* The index document *)

Types == {"image", "video", "audio"}

FramePath(i) == Str(<<"thumbnails", "/", "frame", ToString(i)>>)
MainPath     == Str(<<"thumbnails", "/", "main">>)

\* A MediaRecord as the scanner writes it: relativePath ends in fileName.
MkRecord(id, type, dir, fileName, creationDate) ==
    [ id           |-> id,
      type         |-> type,
      fileName     |-> fileName,
      relativePath |-> dir \o fileName,
      metadata     |-> [ creationDate |-> creationDate,
                         duration     |-> IF type = "image" THEN Null ELSE Num(20),
                         fileSize     |-> <<2, 0>> ],
      thumbnails   |-> [ main   |-> MainPath,
                         frames |-> IF type = "video"
                                    THEN <<FramePath(1), FramePath(2)>>
                                    ELSE <<>> ],
      googleDrive  |-> Undefined ]

\* The records the documents of the model are made of: two of the same day,
\* one from before the epoch, one with a null creationDate and one whose
\* creationDate is text that is no date.
RecordPool ==
    { MkRecord(1, "image", <<"b", "/">>, <<"A">>,      IsoDate(2 * MsPerDay + 1)),
      MkRecord(2, "video", <<>>,         <<"a", "b">>, IsoDate(3 * MsPerDay - 1)),
      MkRecord(3, "audio", <<"b", "/">>, <<"b">>,      Null),
      MkRecord(4, "video", <<>>,         <<"A", "b">>, Str(<<"b">>)),
      MkRecord(5, "image", <<"/">>,      <<"a", "A">>, IsoDate(0 - 1)) }

IsInjective(s) == \A i, j \in DOMAIN s : s[i] = s[j] => i = j

FileLists ==
    { s \in UNION { [1..n -> RecordPool] : n \in 0..MaxFiles } : IsInjective(s) }

CountType(files, type) == Cardinality({ i \in DOMAIN files : files[i].type = type })

MkDocument(files) ==
    [ metadata |-> [ stats |-> [ images |-> CountType(files, "image"),
                                 videos |-> CountType(files, "video"),
                                 audio  |-> CountType(files, "audio") ] ],
      files    |-> files ]

Documents == { MkDocument(files) : files \in FileLists }

\* What the host answers for media_index.json: nothing (the request fails), a
\* body that is not JSON (an HTML error page, a truncated file), or a document.
Servers ==
    { [kind |-> "unreachable"], [kind |-> "notjson"] }
        \cup { [kind |-> "json", body |-> d] : d \in Documents }

BaseUrls == { <<"/">>, <<"/", "media-viewer", "/">> }

IndexName == <<"media_index.json">>

\* `${import.meta.env.BASE_URL}media_index.json?t=${Date.now()}`: the path and
\* the names of the query parameters (the value of t is the clock's).
IndexUrl(base) == [ path |-> base \o IndexName, query |-> {"t"} ]

Queries == UNION { [1..n -> Chars] : n \in 0..MaxQueryLen }

FilterTypes == {"all"} \cup Types

-----------------------------------------------------------------------------
(* App.groupedByDate *)

\* FilterByType with the filter step left out.
FilterByType_Skipped(files, ft) == files

\* filtered.filter(file => file.type === filterType), skipped for 'all'
FilterByType(files, ft) ==
    IF ft # "all"
    THEN LET Keep(f) == f.type = ft IN SelectSeq(files, Keep)
    ELSE files

\* MatchesQuery with the query compared as typed, not lower-cased.
MatchesQuery_CaseSensitive(f, q) ==
    \/ includes(toLowerCase(f.fileName), q)
    \/ includes(toLowerCase(f.relativePath), q)

\* The predicate of the search filter.
MatchesQuery(f, q) ==
    LET query == toLowerCase(q)
    IN  \/ includes(toLowerCase(f.fileName), query)
        \/ includes(toLowerCase(f.relativePath), query)

\* filtered.filter(...) under if (searchQuery): the empty string is falsy.
FilterBySearch(files, q) ==
    IF q # <<>>
    THEN LET Keep(f) == MatchesQuery(f, q) IN SelectSeq(files, Keep)
    ELSE files

\* A key of the grouped object: the text YYYY-MM-DD, held as the number of the
\* UTC day it names, or the text 'unknown-date'.
DayKey(d)      == [kind |-> "date", day |-> d]
UnknownDateKey == [kind |-> "unknown-date", day |-> 0]

\* date.toISOString().split('T')[0] when the date is valid, else the fallback.
DateKeyOf(f) ==
    LET date == NewDate(f.metadata.creationDate)
    IN  IF date.valid THEN DayKey(date.ms \div MsPerDay) ELSE UnknownDateKey

\* new Date(key) for a key YYYY-MM-DD: that day's midnight, UTC.
KeyTime(key) == key.day * MsPerDay

KeyIndex(entries, key) ==
    LET hits == { i \in DOMAIN entries : entries[i].key = key }
    IN  IF hits = {} THEN 0 ELSE CHOOSE i \in hits : TRUE

RECURSIVE GroupReduce_Overwrite(_, _)
\* GroupReduce without the test of line 49: every record starts its group anew.
GroupReduce_Overwrite(files, acc) ==
    IF files = <<>> THEN acc
    ELSE LET f   == Head(files)
             key == DateKeyOf(f)
             at  == KeyIndex(acc, key)
             nxt == IF at = 0
                    THEN Append(acc, [key |-> key, files |-> <<f>>])
                    ELSE [acc EXCEPT ![at].files = <<f>>]
         IN  GroupReduce_Overwrite(Tail(files), nxt)

RECURSIVE GroupReduce(_, _)
\* filtered.reduce((acc, file) => ..., {}): an object keeps its keys in the
\* order they were first set, so acc is a sequence of entries.
GroupReduce(files, acc) ==
    IF files = <<>> THEN acc
    ELSE LET f   == Head(files)
             key == DateKeyOf(f)
             at  == KeyIndex(acc, key)
             nxt == IF at = 0
                    THEN Append(acc, [key |-> key, files |-> <<f>>])
                    ELSE [acc EXCEPT ![at].files = Append(@, f)]
         IN  GroupReduce(Tail(files), nxt)

\* CompareKeys with the operands of the subtraction exchanged.
CompareKeys_Ascending(a, b) ==
    IF a = UnknownDateKey THEN 1
    ELSE IF b = UnknownDateKey THEN -1
    ELSE LET d == KeyTime(a) - KeyTime(b)
         IN  IF d > 0 THEN 1 ELSE IF d < 0 THEN -1 ELSE 0

\* The comparator of the sort: its sign.
CompareKeys(a, b) ==
    IF a = UnknownDateKey THEN 1
    ELSE IF b = UnknownDateKey THEN -1
    ELSE LET d == KeyTime(b) - KeyTime(a)
         IN  IF d > 0 THEN 1 ELSE IF d < 0 THEN -1 ELSE 0

RECURSIVE InsertKey(_, _, _)
\* One step of the insertion sort: k goes after the last of the first n keys
\* that does not compare greater than it.
InsertKey(sorted, k, n) ==
    IF n = 0 \/ CompareKeys(sorted[n], k) <= 0
    THEN SubSeq(sorted, 1, n) \o <<k>> \o SubSeq(sorted, n + 1, Len(sorted))
    ELSE InsertKey(sorted, k, n - 1)

RECURSIVE SortKeys(_, _)
\* Object.keys(grouped).sort(compare)
SortKeys(keys, sorted) ==
    IF keys = <<>> THEN sorted
    ELSE SortKeys(Tail(keys), InsertKey(sorted, Head(keys), Len(sorted)))

\* The useMemo of lines 23-67: the groups in the order they are rendered.
GroupedByDate(data, ft, q) ==
    IF data = Null THEN <<>>
    ELSE LET filtered == FilterBySearch(FilterByType(data.files, ft), q)
             grouped  == GroupReduce(filtered, <<>>)
             keys     == SortKeys([i \in DOMAIN grouped |-> grouped[i].key], <<>>)
         IN  [i \in DOMAIN keys |-> grouped[KeyIndex(grouped, keys[i])]]

groupedByDate == GroupedByDate(mediaData, filterType, searchQuery)

\* Which of the three screens App returns.
Screen ==
    IF loading THEN "loading"
    ELSE IF mediaData = Null THEN "error"
    ELSE "library"

RECURSIVE SumLengths(_)
SumLengths(groups) ==
    IF groups = <<>> THEN 0
    ELSE Len(Head(groups).files) + SumLengths(Tail(groups))

totalFiles == SumLengths(groupedByDate)

\* Object.keys(groupedByDate).length === 0: 'No files found' is rendered.
NoFilesFound == Len(groupedByDate) = 0

\* The records the library screen shows, group after group.
RECURSIVE Flatten(_)
Flatten(groups) ==
    IF groups = <<>> THEN <<>>
    ELSE Head(groups).files \o Flatten(Tail(groups))

Displayed == IF Screen = "library" THEN Flatten(groupedByDate) ELSE <<>>


-----------------------------------------------------------------------------
(* App: the actions *)

\* The card of the App specification: none is followed.
NoCard ==
    /\ mounted = FALSE
    /\ file = MkRecord(1, "image", <<>>, <<"a">>, Null)
    /\ currentFrame = 0
    /\ isHovering = FALSE
    /\ intervalRef = 0
    /\ timers = {}
    /\ effectPending = FALSE
    /\ hasCleanup = FALSE
    /\ opened = <<>>
    /\ clicks = 0
    /\ lastEvent = "none"

\* The state after App's first render: the useState initial values.
AppInit ==
    /\ baseUrl \in BaseUrls
    /\ server \in Servers
    /\ fetchState = "idle"
    /\ requests = <<>>
    /\ mediaData = Null
    /\ filterType = "all"
    /\ searchQuery = <<>>
    /\ loading = TRUE

Init == AppInit /\ NoCard

\* useEffect(..., []): the fetch of line 11, once, after the first render.
FetchIndex ==
    /\ fetchState = "idle"
    /\ fetchState' = "pending"
    /\ requests' = Append(requests, [method |-> "GET", url |-> IndexUrl(baseUrl)])
    /\ UNCHANGED <<baseUrl, server, mediaData, filterType, searchQuery, loading>>
    /\ UNCHANGED cardVars

\* The fetch promise rejects: .catch logs and calls setLoading(false).
FetchFails ==
    /\ fetchState = "pending"
    /\ server.kind = "unreachable"
    /\ fetchState' = "settled"
    /\ loading' = FALSE
    /\ UNCHANGED <<baseUrl, server, requests, mediaData, filterType, searchQuery>>
    /\ UNCHANGED cardVars

\* The fetch promise resolves: .then(response => response.json()) starts
\* reading the body, whatever the status of the response.
ResponseArrives ==
    /\ fetchState = "pending"
    /\ server.kind # "unreachable"
    /\ fetchState' = "parsing"
    /\ UNCHANGED <<baseUrl, server, requests, mediaData, filterType, searchQuery,
                   loading>>
    /\ UNCHANGED cardVars

\* OnData without its setLoading(false).
OnData_StillLoading(data) ==
    /\ mediaData' = data
    /\ UNCHANGED loading

\* The handler of lines 13-16.
OnData(data) ==
    /\ mediaData' = data
    /\ loading' = FALSE

\* response.json() resolves with the parsed document.
ParseSucceeds ==
    /\ fetchState = "parsing"
    /\ server.kind = "json"
    /\ fetchState' = "settled"
    /\ OnData(server.body)
    /\ UNCHANGED <<baseUrl, server, requests, filterType, searchQuery>>
    /\ UNCHANGED cardVars

\* response.json() rejects: .catch logs and calls setLoading(false).
ParseFails ==
    /\ fetchState = "parsing"
    /\ server.kind = "notjson"
    /\ fetchState' = "settled"
    /\ loading' = FALSE
    /\ UNCHANGED <<baseUrl, server, requests, mediaData, filterType, searchQuery>>
    /\ UNCHANGED cardVars

\* onClick of one of the four filter buttons, which only the library screen has.
SetFilterType(ft) ==
    /\ Screen = "library"
    /\ filterType' = ft
    /\ UNCHANGED <<baseUrl, server, fetchState, requests, mediaData, searchQuery,
                   loading>>
    /\ UNCHANGED cardVars

ClickFilter == \E ft \in FilterTypes : SetFilterType(ft)

\* onChange of the search box: e.target.value is any text.
SetSearchQuery(q) ==
    /\ Screen = "library"
    /\ searchQuery' = q
    /\ UNCHANGED <<baseUrl, server, fetchState, requests, mediaData, filterType,
                   loading>>
    /\ UNCHANGED cardVars

TypeSearch == \E q \in Queries : SetSearchQuery(q)

Next ==
    \/ FetchIndex
    \/ FetchFails
    \/ ResponseArrives
    \/ ParseSucceeds
    \/ ParseFails
    \/ ClickFilter
    \/ TypeSearch

Spec == Init /\ [][Next]_vars

\* The network answers or fails, and the body is read to its end.
FairSpec ==
    /\ Spec
    /\ WF_vars(FetchIndex)
    /\ WF_vars(FetchFails)
    /\ WF_vars(ResponseArrives)
    /\ WF_vars(ParseSucceeds)
    /\ WF_vars(ParseFails)


-----------------------------------------------------------------------------
(* Claims about App *)

\* Whether q is a contiguous part of s.
IsSubstring(q, s) ==
    \E i \in 0..Len(s) : \E j \in i..Len(s) : SubSeq(s, i + 1, j) = q

\* The search of the claims: q is empty, or lower-cased q is a part of the
\* lower-cased fileName or of the lower-cased relativePath.
PassesSearch(f, q) ==
    \/ q = <<>>
    \/ IsSubstring(toLowerCase(q), toLowerCase(f.fileName))
    \/ IsSubstring(toLowerCase(q), toLowerCase(f.relativePath))

PassesType(f, ft) == ft = "all" \/ f.type = ft

IsShown(f) == \E i \in DOMAIN Displayed : Displayed[i].id = f.id

LoadedFiles == { mediaData.files[i] : i \in DOMAIN mediaData.files }

\* C1: on the library screen, with the filter at image, video or audio every
\* record shown has that type and every record of that type that passes the
\* search is shown; with the filter at all, every record that passes the search
\* is shown, whatever its type.
C1_TypeFilter ==
    Screen = "library" =>
        /\ filterType \in Types =>
              /\ \A i \in DOMAIN Displayed : Displayed[i].type = filterType
              /\ \A f \in LoadedFiles :
                    f.type = filterType /\ PassesSearch(f, searchQuery) => IsShown(f)
        /\ filterType = "all" =>
              \A f \in LoadedFiles : PassesSearch(f, searchQuery) => IsShown(f)

\* A filter by type that hides some records of a document and shows others.
C1_Witness ==
    /\ Screen = "library"
    /\ filterType = "video"
    /\ Len(Displayed) >= 1
    /\ Len(Displayed) < Len(mediaData.files)

\* C2: a record that passes the type filter is shown exactly when the query is
\* empty or the lower-cased query is a part of its lower-cased fileName or of
\* its lower-cased relativePath.
C2_SearchFilter ==
    Screen = "library" =>
        \A f \in LoadedFiles :
            PassesType(f, filterType) => (IsShown(f) <=> PassesSearch(f, searchQuery))

\* A query in upper case that matches one record by its directory alone, in
\* lower case, and leaves another record out.
C2_Witness ==
    /\ Screen = "library"
    /\ filterType = "all"
    /\ searchQuery = <<"/", "A">>
    /\ Len(Displayed) = 1
    /\ ~IsSubstring(searchQuery, Displayed[1].relativePath)
    /\ ~IsSubstring(toLowerCase(searchQuery), toLowerCase(Displayed[1].fileName))
    /\ Len(mediaData.files) > 1

\* C3: a record with a timestamp is in the group of its UTC calendar day, the
\* dated groups are rendered in strictly descending order of their day, and the
\* unknown-date group, when there is one, is rendered last.
C3_DateOrder ==
    Screen = "library" =>
        LET g == groupedByDate
        IN  /\ \A i \in DOMAIN g : \A k \in DOMAIN g[i].files :
                  LET d == g[i].files[k].metadata.creationDate
                  IN  d.t = "isodate" => g[i].key = DayKey(d.time \div MsPerDay)
            /\ \A i, j \in DOMAIN g :
                  i < j /\ g[i].key.kind = "date" /\ g[j].key.kind = "date"
                      => g[i].key.day > g[j].key.day
            /\ \A i \in DOMAIN g : g[i].key.kind = "unknown-date" => i = Len(g)

\* A document that starts with a record without a date and ends with its most
\* recent one: three groups, the unknown one last.
C3_Witness ==
    /\ Screen = "library"
    /\ Len(mediaData.files) = 3
    /\ mediaData.files[1].metadata.creationDate.t = "string"
    /\ mediaData.files[2].metadata.creationDate.t = "isodate"
    /\ mediaData.files[3].metadata.creationDate.t = "isodate"
    /\ Len(groupedByDate) = 3
    /\ groupedByDate[1].files[1].id = mediaData.files[3].id
    /\ groupedByDate[3].key = UnknownDateKey

\* Whether a creationDate is unrecoverable: null, or no date at all.
Unrecoverable(d) == d.t # "isodate"

\* C4: every record shown whose creationDate is null or does not parse as a
\* date is in the unknown-date group, and that group is the last one.
C4_UnknownDateGroup ==
    Screen = "library" =>
        LET g == groupedByDate
        IN  \A i \in DOMAIN g : \A k \in DOMAIN g[i].files :
                Unrecoverable(g[i].files[k].metadata.creationDate)
                    => g[i].key = UnknownDateKey /\ i = Len(g)

\* C7: one GET of media_index.json under the base URL, with the parameter t;
\* loading starts true, becomes false and then stays false; the library screen
\* shows the parsed document only, and when there is no document (the request
\* failed, the body is not JSON) mediaData is null and the error screen shows.
C7_LoadLifecycle ==
    /\ loading = TRUE
    /\ <>(loading = FALSE)
    /\ [][loading = FALSE => loading' = FALSE]_vars
    /\ <>(Len(requests) = 1)
    /\ [](/\ Len(requests) <= 1
          /\ \A i \in DOMAIN requests :
                /\ requests[i].method = "GET"
                /\ requests[i].url.path = baseUrl \o IndexName
                /\ "t" \in requests[i].url.query)
    /\ [](loading = FALSE /\ server.kind # "json"
              => mediaData = Null /\ Screen = "error")
    /\ [](Screen = "library" => server.kind = "json" /\ mediaData = server.body)
    /\ [](Screen = "error" => server.kind # "json")

\* Both ends of the lifecycle: an error screen after a body that is not JSON.
C7_Witness ==
    /\ server.kind = "notjson"
    /\ fetchState = "settled"
    /\ Len(requests) = 1
    /\ Screen = "error"


-----------------------------------------------------------------------------
(* MediaCard: the records a card is given *)

Whitespace == {" ", "\t"}

\* googleDrive.url as the enrichment step leaves it: empty, blank or a link.
DriveUrls ==
    { <<>>, <<" ">>, <<"\t", " ">>, <<"h">>, <<" ", "h", " ">> }

DriveValues ==
    {Undefined} \cup { [t |-> "object", url |-> u] : u \in DriveUrls }

\* duration: null or 0 for a record that was not probed, else seconds.
Durations(type) ==
    IF type = "image" THEN {Null, Num(0)} ELSE {Null, Num(0), Num(75), Num(3725)}

\* frames: empty for an image, an audio record or a degraded video.
FrameCounts(type) == IF type = "video" THEN 0..MaxFrames ELSE {0}

MkCardFile(type, n, main, duration, drive) ==
    [ id           |-> 1,
      type         |-> type,
      fileName     |-> <<"a">>,
      relativePath |-> <<"b", "/", "a">>,
      metadata     |-> [ creationDate |-> IsoDate(MsPerDay),
                         duration     |-> duration,
                         fileSize     |-> <<2, 0>> ],
      thumbnails   |-> [ main |-> main, frames |-> [i \in 1..n |-> FramePath(i)] ],
      googleDrive  |-> drive ]

ValidCardFile(f) ==
    /\ Len(f.thumbnails.frames) \in FrameCounts(f.type)
    /\ f.metadata.duration \in Durations(f.type)

CardFiles ==
    { f \in { MkCardFile(type, n, main, duration, drive) :
                type \in Types, n \in 0..MaxFrames, main \in {Null, MainPath},
                duration \in {Null, Num(0), Num(75), Num(3725)},
                drive \in DriveValues } :
        ValidCardFile(f) }

-----------------------------------------------------------------------------
(* MediaCard: what it renders *)

\* arr[i] of JavaScript, 0-based: undefined outside the array.
At(arr, i) == IF i >= 0 /\ i < Len(arr) THEN arr[i + 1] ELSE Undefined

\* a % n of JavaScript on non-negative numbers; -1 stands for NaN (n = 0).
JsMod(a, n) == IF n = 0 THEN 0 - 1 ELSE a % n

\* The thumbnail of lines 29-31.
Thumbnail(f, frame) ==
    IF f.type = "video" /\ Len(f.thumbnails.frames) > 0
    THEN At(f.thumbnails.frames, frame)
    ELSE f.thumbnails.main

\* src={`/${thumbnail}`}
ImgSrc(th) == <<"/">> \o th.s

\* thumbnail ? <img .../> : <div>... No thumbnail</div>
ThumbnailSlot(f, frame) ==
    LET th == Thumbnail(f, frame)
    IN  IF Truthy(th)
        THEN [kind |-> "img", src |-> ImgSrc(th)]
        ELSE [kind |-> "placeholder", src |-> <<>>]

\* String(n).padStart(2, '0')
PadStart2(n) == IF Len(ToString(n)) < 2 THEN "0" \o ToString(n) ELSE ToString(n)

\* formatDuration of lines 3-14, on whole seconds.
formatDuration(seconds) ==
    IF ~Truthy(seconds) THEN ""
    ELSE LET hours   == seconds.n \div 3600
             minutes == (seconds.n % 3600) \div 60
             secs    == seconds.n % 60
         IN  IF hours > 0
             THEN ToString(hours) \o ":" \o PadStart2(minutes) \o ":" \o PadStart2(secs)
             ELSE ToString(minutes) \o ":" \o PadStart2(secs)

\* The expression of lines 113-117.
DurationOverlay(f) ==
    JsAnd(JsAnd(Bool(f.type = "video" \/ f.type = "audio"), f.metadata.duration),
          Element("duration-overlay", formatDuration(f.metadata.duration)))

RECURSIVE TrimStart(_)
TrimStart(s) ==
    IF s # <<>> /\ Head(s) \in Whitespace THEN TrimStart(Tail(s)) ELSE s

RECURSIVE TrimEnd(_)
TrimEnd(s) ==
    IF s # <<>> /\ s[Len(s)] \in Whitespace
    THEN TrimEnd(SubSeq(s, 1, Len(s) - 1))
    ELSE s

\* String.prototype.trim
trim(s) == TrimEnd(TrimStart(s))

\* hasDriveUrl without the trim: any url that is not empty counts.
hasDriveUrl_NoTrim(f) ==
    IF f.googleDrive.t = "undefined" THEN Undefined
    ELSE JsAnd(Str(f.googleDrive.url), Bool(f.googleDrive.url # <<>>))

\* hasDriveUrl of line 77: file.googleDrive?.url && url.trim() !== ''
hasDriveUrl(f) ==
    LET url == IF f.googleDrive.t = "undefined" THEN Undefined
               ELSE Str(f.googleDrive.url)
    IN  JsAnd(url, Bool(url.t = "string" /\ trim(url.s) # <<>>))

\* The expression of lines 128-135.
DriveBadge(f) == JsAnd(hasDriveUrl(f), Element("drive-badge", "Drive"))


-----------------------------------------------------------------------------
(* MediaCard: the hover effect and the events *)

\* The part of the card the effect and the timer callback work on.
Card ==
    [ currentFrame |-> currentFrame, intervalRef |-> intervalRef,
      timers |-> timers, hasCleanup |-> hasCleanup ]

SetCard(c) ==
    /\ currentFrame' = c.currentFrame
    /\ intervalRef' = c.intervalRef
    /\ timers' = c.timers
    /\ hasCleanup' = c.hasCleanup

\* The interval ids setInterval may return: never one that is live, never the
\* one intervalRef still holds (the browser does not hand an id out twice).
FreeIds(c) == { i \in 1..MaxTimerId : i \notin c.timers /\ i # c.intervalRef }

\* if (intervalRef.current) clearInterval(intervalRef.current)
ClearInterval(c) ==
    IF c.intervalRef # 0 THEN [c EXCEPT !.timers = @ \ {c.intervalRef}] ELSE c

\* intervalRef.current = setInterval(...)
StartInterval(c) ==
    LET id == CHOOSE i \in FreeIds(c) : \A j \in FreeIds(c) : i <= j
    IN  [c EXCEPT !.intervalRef = id, !.timers = @ \cup {id}]

\* The condition of line 34.
Cycles(hovering, f) ==
    hovering /\ f.type = "video" /\ Len(f.thumbnails.frames) > 0

\* EffectBody without the setCurrentFrame(0) of its else branch.
EffectBody_NoReset(c, hovering, f) ==
    IF Cycles(hovering, f) THEN StartInterval(c) ELSE ClearInterval(c)

\* The body of the effect, lines 34-43.
EffectBody(c, hovering, f) ==
    IF Cycles(hovering, f)
    THEN StartInterval(c)
    ELSE [ClearInterval(c) EXCEPT !.currentFrame = 0]

\* EffectCleanup of an effect that returns no cleanup function.
EffectCleanup_Missing(c) == c

\* The function the effect returns, lines 45-49.
EffectCleanup(c) == ClearInterval(c)

\* React runs the cleanup of the effect's last run, then the effect.
RunEffect(c, hovering, f) ==
    LET cleaned == IF c.hasCleanup THEN EffectCleanup(c) ELSE c
    IN  [EffectBody(cleaned, hovering, f) EXCEPT !.hasCleanup = TRUE]

\* Whether the browser of the model has an interval id left for the effect.
CanRunEffect(c, hovering, f) ==
    Cycles(hovering, f) =>
        FreeIds(IF c.hasCleanup THEN EffectCleanup(c) ELSE c) # {}

\* React runs the pending effect of the last commit before it renders again.
Flushed(c) == IF effectPending THEN RunEffect(c, isHovering, file) ELSE c
CanFlush(c) == effectPending => CanRunEffect(c, isHovering, file)

\* NextFrame without the modulo.
NextFrame_NoWrap(prev, n) == prev + 1

\* The updater of line 36.
NextFrame(prev, n) == JsMod(prev + 1, n)

\* The passive effect of the last commit runs.
FlushEffects ==
    /\ mounted
    /\ effectPending
    /\ CanFlush(Card)
    /\ SetCard(Flushed(Card))
    /\ effectPending' = FALSE
    /\ lastEvent' = "effect"
    /\ UNCHANGED <<mounted, file, isHovering, opened, clicks>>
    /\ UNCHANGED appVars

\* setIsHovering(h) from onMouseEnter / onMouseLeave, and the render it causes:
\* isHovering is a dependency of the effect, which is scheduled again.
SetIsHovering(h) ==
    /\ CanFlush(Card)
    /\ SetCard(Flushed(Card))
    /\ isHovering' = h
    /\ effectPending' = TRUE
    /\ UNCHANGED <<mounted, file, opened, clicks>>
    /\ UNCHANGED appVars

\* onMouseEnter: the pointer comes over the card.
MouseEnter ==
    /\ mounted
    /\ ~isHovering
    /\ SetIsHovering(TRUE)
    /\ lastEvent' = "enter"

\* onMouseLeave: the pointer leaves the card.
MouseLeave ==
    /\ mounted
    /\ isHovering
    /\ SetIsHovering(FALSE)
    /\ lastEvent' = "leave"

\* A live interval fires: setCurrentFrame(prev => (prev + 1) % frames.length),
\* and the render it causes. On a card that is gone the update is dropped.
TimerTick(id) ==
    /\ id \in timers
    /\ IF mounted
       THEN LET ticked == [Card EXCEPT !.currentFrame =
                              NextFrame(@, Len(file.thumbnails.frames))]
            IN  /\ CanFlush(ticked)
                /\ SetCard(Flushed(ticked))
                /\ effectPending' = FALSE
       ELSE UNCHANGED <<currentFrame, intervalRef, timers, hasCleanup, effectPending>>
    /\ lastEvent' = "tick"
    /\ UNCHANGED <<mounted, file, isHovering, opened, clicks>>
    /\ UNCHANGED appVars

Tick == \E id \in 1..MaxTimerId : TimerTick(id)

\* handleClick of lines 79-83.
Click ==
    /\ mounted
    /\ clicks < MaxClicks
    /\ clicks' = clicks + 1
    /\ opened' = IF Truthy(hasDriveUrl(file))
                 THEN Append(opened, [ url      |-> file.googleDrive.url,
                                       target   |-> "_blank",
                                       features |-> "noopener,noreferrer" ])
                 ELSE opened
    /\ lastEvent' = "click"
    /\ UNCHANGED <<mounted, file, currentFrame, isHovering, intervalRef, timers,
                   effectPending, hasCleanup>>
    /\ UNCHANGED appVars

\* App renders again and keeps the card (same key, same file): React runs a
\* pending effect first, and the dependencies of line 50 are unchanged, so no
\* effect is scheduled.
Rerender ==
    /\ mounted
    /\ CanFlush(Card)
    /\ SetCard(Flushed(Card))
    /\ effectPending' = FALSE
    /\ lastEvent' = "rerender"
    /\ UNCHANGED <<mounted, file, isHovering, opened, clicks>>
    /\ UNCHANGED appVars

\* App stops rendering the card (a filter or the search leaves its file out):
\* a pending effect runs, then the cleanup of the effect.
Unmount ==
    /\ mounted
    /\ CanFlush(Card)
    /\ LET c == Flushed(Card)
       IN  SetCard(IF c.hasCleanup THEN EffectCleanup(c) ELSE c)
    /\ mounted' = FALSE
    /\ effectPending' = FALSE
    /\ lastEvent' = "unmount"
    /\ UNCHANGED <<file, isHovering, opened, clicks>>
    /\ UNCHANGED appVars

\* App renders the card again: a new instance, with the initial state of
\* lines 25-27.
Mount ==
    /\ ~mounted
    /\ mounted' = TRUE
    /\ currentFrame' = 0
    /\ isHovering' = FALSE
    /\ intervalRef' = 0
    /\ hasCleanup' = FALSE
    /\ effectPending' = TRUE
    /\ lastEvent' = "mount"
    /\ UNCHANGED <<file, timers, opened, clicks>>
    /\ UNCHANGED appVars

\* The library screen with one record, and the first render of its card.
CardInit ==
    /\ baseUrl \in BaseUrls
    /\ file \in CardFiles
    /\ server = [kind |-> "json", body |-> MkDocument(<<file>>)]
    /\ fetchState = "settled"
    /\ requests = <<[method |-> "GET", url |-> IndexUrl(baseUrl)]>>
    /\ mediaData = server.body
    /\ filterType = "all"
    /\ searchQuery = <<>>
    /\ loading = FALSE
    /\ mounted = TRUE
    /\ currentFrame = 0
    /\ isHovering = FALSE
    /\ intervalRef = 0
    /\ timers = {}
    /\ effectPending = TRUE
    /\ hasCleanup = FALSE
    /\ opened = <<>>
    /\ clicks = 0
    /\ lastEvent = "none"

CardNext ==
    \/ FlushEffects
    \/ MouseEnter
    \/ MouseLeave
    \/ Tick
    \/ Click
    \/ Rerender
    \/ Unmount
    \/ Mount

CardSpec == CardInit /\ [][CardNext]_vars


-----------------------------------------------------------------------------
(* Claims about MediaCard *)

FrameCount == Len(file.thumbnails.frames)

\* A video card with frames to cycle through.
HasFrames == file.type = "video" /\ FrameCount > 0

\* C5: on a hovered video card with N > 0 frames every timer tick moves the
\* frame index from k to (k + 1) mod N; the index is 0 when a hover starts;
\* once the pointer has left and the effect of that render has run the index
\* is 0, and it is 0 until the next hover.
C5_HoverCycling ==
    /\ [][mounted /\ HasFrames /\ isHovering /\ lastEvent' = "tick"
              => currentFrame' = (currentFrame + 1) % FrameCount]_vars
    /\ [][lastEvent' = "enter" => isHovering' /\ currentFrame' = 0]_vars
    /\ [](mounted /\ ~isHovering /\ ~effectPending => currentFrame = 0)
    /\ [](mounted /\ ~isHovering /\ ~effectPending => timers = {})

\* A hover that has cycled through all the frames and is back at the second.
C5_Witness ==
    /\ mounted
    /\ isHovering
    /\ lastEvent = "tick"
    /\ FrameCount = 3
    /\ currentFrame = 2

\* The location the index was fetched under: its URL without the last segment.
IndexBase == SubSeq(requests[1].url.path, 1, Len(requests[1].url.path) - 1)

\* C6: the URL of the thumbnail a card requests lies under the location the
\* index was fetched from.
C6_AssetsUnderBase ==
    mounted /\ ThumbnailSlot(file, currentFrame).kind = "img"
        => StartsWith(ThumbnailSlot(file, currentFrame).src, IndexBase)

\* What the card shows in the place of the duration overlay.
OverlaySlot == Rendered(DurationOverlay(file))

PositiveDuration ==
    /\ file.type \in {"video", "audio"}
    /\ file.metadata.duration.t = "number"
    /\ file.metadata.duration.n > 0

\* C8: the overlay is rendered exactly for a video or audio record with a
\* positive duration; with a duration of 0 or null nothing is rendered there.
C8_DurationOverlay ==
    mounted =>
        /\ OverlaySlot.kind = "element" <=> PositiveDuration
        /\ ~PositiveDuration => OverlaySlot = Nothing

\* Whether the record has a Drive url that is not empty once trimmed.
DriveLinked ==
    /\ file.googleDrive.t = "object"
    /\ \E i \in DOMAIN file.googleDrive.url : file.googleDrive.url[i] \notin Whitespace

BadgeShown == Rendered(DriveBadge(file)).kind = "element"

\* C9: every click on a card with a Drive url that is not blank opens that url
\* in a new tab, a click on any other card opens nothing, no click changes the
\* state of the card, and the Drive badge is shown exactly on the cards whose
\* click opens the url.
C9_DriveLink ==
    /\ [](mounted => (BadgeShown <=> DriveLinked))
    /\ [](IF DriveLinked
          THEN /\ Len(opened) = clicks
               /\ \A i \in DOMAIN opened :
                     /\ opened[i].url = file.googleDrive.url
                     /\ opened[i].target = "_blank"
          ELSE opened = <<>>)
    /\ [][clicks' # clicks =>
              UNCHANGED <<mounted, file, currentFrame, isHovering, intervalRef,
                          timers, effectPending, hasCleanup>>]_vars

\* A card whose url has blanks around a link, clicked twice, and a click on a
\* hovered card.
C9_Witness ==
    /\ file.googleDrive.t = "object"
    /\ file.googleDrive.url = <<" ", "h", " ">>
    /\ clicks = 2
    /\ Len(opened) = 2
    /\ isHovering
    /\ lastEvent = "click"

\* C10: on a video card with N > 0 frames 0 <= currentFrame < N and the card
\* shows frames[currentFrame]; any other card shows thumbnails.main, and the
\* placeholder is there exactly when that is null.
C10_ThumbnailValid ==
    mounted =>
        IF HasFrames
        THEN /\ currentFrame >= 0
             /\ currentFrame < FrameCount
             /\ Thumbnail(file, currentFrame) = file.thumbnails.frames[currentFrame + 1]
             /\ ThumbnailSlot(file, currentFrame).kind = "img"
        ELSE /\ Thumbnail(file, currentFrame) = file.thumbnails.main
             /\ ThumbnailSlot(file, currentFrame).kind = "placeholder"
                    <=> file.thumbnails.main = Null

\* The last frame of a hovered video card.
C10_Witness ==
    /\ mounted
    /\ HasFrames
    /\ FrameCount = 3
    /\ currentFrame = 2
    /\ ThumbnailSlot(file, currentFrame).src = ImgSrc(FramePath(3))


-----------------------------------------------------------------------------
(* formatFileSize *)

\* A byte count is held by its digits in base 1024, the most significant
\* first and not 0 (2048 is <<2, 0>>, zero is <<0>>): a card may be given more
\* bytes than a 32-bit integer holds.
Kilo == 1024

ZeroBytes == <<0>>

DigitSamples == {0, 1, Kilo - 1}

ByteCounts ==
    {ZeroBytes} \cup
    { b \in UNION { [1..n -> DigitSamples] : n \in 1..MaxSizeDigits } : b[1] # 0 }

\* const sizes = ['B', 'KB', 'MB', 'GB']
Sizes == << [t |-> "string", s |-> "B"], [t |-> "string", s |-> "KB"],
            [t |-> "string", s |-> "MB"], [t |-> "string", s |-> "GB"] >>

\* Math.floor(Math.log(bytes) / Math.log(k)) of a positive byte count.
FloorLogKilo(bytes) == Len(bytes) - 1

RECURSIVE FloorFraction(_, _)
\* floor(m * 0.d1 d2 ... ) for digits d1 d2 ... in base 1024.
FloorFraction(m, digits) ==
    IF digits = <<>> THEN 0
    ELSE (m * Head(digits) + FloorFraction(m, Tail(digits))) \div Kilo

\* Math.round(bytes / Math.pow(k, i) * 100), i the floor of the logarithm:
\* floor(100 x + 1/2) = floor((floor(200 x) + 1) / 2).
RoundedHundredths(bytes) ==
    (200 * Head(bytes) + FloorFraction(200, Tail(bytes)) + 1) \div 2

\* ' ' + sizes[i]: undefined is concatenated as the text 'undefined'.
UnitText(v) == IF v.t = "undefined" THEN "undefined" ELSE v.s

\* formatFileSize of lines 16-22: the number (in hundredths) and the unit of
\* the text it returns.
formatFileSize(bytes) ==
    IF bytes = ZeroBytes THEN [hundredths |-> 0, unit |-> "B"]
    ELSE LET i == FloorLogKilo(bytes)
         IN  [ hundredths |-> RoundedHundredths(bytes),
               unit       |-> UnitText(At(Sizes, i)) ]

\* <span>{formatFileSize(file.metadata.fileSize)}</span>
FileSizeText == formatFileSize(file.metadata.fileSize)

\* The records of the cards whose size is looked at: a video with two frames.
SizeFiles ==
    { [MkCardFile("video", 2, MainPath, Num(75), Undefined)
          EXCEPT !.metadata.fileSize = b] : b \in ByteCounts }

\* The library screen with one record of some size, and the first render of
\* its card.
SizeInit ==
    /\ baseUrl = <<"/">>
    /\ file \in SizeFiles
    /\ server = [kind |-> "json", body |-> MkDocument(<<file>>)]
    /\ fetchState = "settled"
    /\ requests = <<[method |-> "GET", url |-> IndexUrl(baseUrl)]>>
    /\ mediaData = server.body
    /\ filterType = "all"
    /\ searchQuery = <<>>
    /\ loading = FALSE
    /\ mounted = TRUE
    /\ currentFrame = 0
    /\ isHovering = FALSE
    /\ intervalRef = 0
    /\ timers = {}
    /\ effectPending = TRUE
    /\ hasCleanup = FALSE
    /\ opened = <<>>
    /\ clicks = 0
    /\ lastEvent = "none"

SizeSpec == SizeInit /\ [][CardNext]_vars

UnitNames == <<"B", "KB", "MB", "GB">>

\* C11: the text of the file size of a card has one of the units B, KB, MB, GB,
\* the one whose index is the floor of the base-1024 logarithm of the byte
\* count, and zero bytes give 0 B.
C11_FileSizeUnit ==
    mounted =>
        LET bytes == file.metadata.fileSize
        IN  /\ FileSizeText.unit \in {"B", "KB", "MB", "GB"}
            /\ bytes = ZeroBytes => FileSizeText = [hundredths |-> 0, unit |-> "B"]
            /\ bytes # ZeroBytes /\ Len(bytes) <= Len(UnitNames)
                   => FileSizeText.unit = UnitNames[Len(bytes)]


\* C12: a card never has more than one live interval, and a live one is the
\* one intervalRef holds; once the effect of the last render has run an
\* interval is live only on a hovered video card with frames; a card that is
\* unmounted has no live interval, and no tick reaches it.
C12_TimerDiscipline ==
    /\ [](Cardinality(timers) <= 1)
    /\ [](timers # {} => timers = {intervalRef})
    /\ [](mounted /\ ~effectPending /\ timers # {} => isHovering /\ HasFrames)
    /\ [](~mounted => timers = {})
    /\ [][~mounted => lastEvent' # "tick"]_vars

\* A card unmounted while hovered, after a tick of its interval.
C12_Witness ==
    /\ ~mounted
    /\ lastEvent = "unmount"
    /\ isHovering
    /\ HasFrames
    /\ intervalRef # 0
    /\ currentFrame = 1
    /\ timers = {}


\* The positions in the document of the records that pass both filters.
Passing ==
    { i \in DOMAIN mediaData.files :
        /\ PassesType(mediaData.files[i], filterType)
        /\ PassesSearch(mediaData.files[i], searchQuery) }

\* The places <<group, position>> at which the groups hold the record id.
PlacesOf(id) ==
    { p \in UNION { { <<a, b>> : b \in DOMAIN groupedByDate[a].files } :
                        a \in DOMAIN groupedByDate } :
        groupedByDate[p[1]].files[p[2]].id = id }

DocPosition(id) == CHOOSE i \in DOMAIN mediaData.files : mediaData.files[i].id = id

\* C13: on the library screen every record that passes the filters is in the
\* groups exactly once, no group is empty, the records of a group are in the
\* order of the document, the total of the header is the number of records
\* that pass (files.length under 'all' with no search), and 'No files found'
\* is shown exactly when none passes.
C13_GroupingPartition ==
    Screen = "library" =>
        LET g == groupedByDate
        IN  /\ \A i \in Passing : Cardinality(PlacesOf(mediaData.files[i].id)) = 1
            /\ \A a \in DOMAIN g : Len(g[a].files) > 0
            /\ \A a \in DOMAIN g : \A b, c \in DOMAIN g[a].files :
                  b < c => DocPosition(g[a].files[b].id) < DocPosition(g[a].files[c].id)
            /\ totalFiles = Cardinality(Passing)
            /\ filterType = "all" /\ searchQuery = <<>>
                  => totalFiles = Len(mediaData.files)
            /\ NoFilesFound <=> Passing = {}

\* A search that leaves one record of three out, the other two in one group
\* although the document has the third between them.
C13_Witness ==
    /\ Screen = "library"
    /\ Len(mediaData.files) = 3
    /\ searchQuery # <<>>
    /\ Passing = {1, 3}
    /\ Len(groupedByDate) = 1
    /\ Len(groupedByDate[1].files) = 2
    /\ totalFiles = 2


====
